---- MODULE Spec2Model ----
(***************************************************************************)
(* Limit order book, matching engine and compliance gate of the Indian LOB *)
(* exchange (src/code/indian_lob_exchange).                                *)
(*                                                                         *)
(* Heap objects are modelled by identity.  An Order object is a record     *)
(* identity (a positive integer) whose fields live in heap.  A Limit       *)
(* object lives in one slot of a side map from its creation                *)
(* (order_book.py:105) to its deletion (order_book.py:126/128); it is      *)
(* referred to by that slot, <<map name, key>>.  Prices are whole numbers  *)
(* (the floats the driver uses are integral); an optional price is <<>>    *)
(* for None and <<p>> otherwise.                                           *)
(***************************************************************************)
EXTENDS Integers, Sequences, FiniteSets, TLC

(* ---------------- bounds of the model ---------------- *)
MaxOrders == 3
MaxQty == 2
InitialPoolSize == 2
MaxGateOrders == 2

(* ---------------- program constants ---------------- *)
BUY == 1
SELL == -1
MARKET == 1
LIMIT == 2
STOP_LOSS == 3
IOC == 4
FOK == 5
ReferencePrice == 100
BandPercent == 10
PoolExpandSize == 1000

Null == 0
None == <<>>

Sides == {BUY, SELL}
OrderTypes == {MARKET, LIMIT, STOP_LOSS, IOC, FOK}
Prices == {0, 100, 101, 111}
Quantities == (-1)..MaxQty
Times == {600}
CancelIds == 0..(MaxOrders + 1)

\* Inputs for the compliance gate: prices below, at and above both band
\* edges, and times of day (minutes since midnight) before the open, in the
\* pre-market, regular and post-market windows.
GatePrices == {-1, 0, 90, 100, 110, 111}
GateQuantities == {1}
GateTimes == {480, 540, 600, 945}

\* Inputs for the index circuit breaker: prices up to 25% either side of the
\* reference price, and times of day around 13:00 and 14:30.
BreakerPrices == 75..125
BreakerTimes == {600, 779, 780, 869, 870, 930}

Min(a, b) == IF a <= b THEN a ELSE b
MinOf(S) == CHOOSE x \in S : \A y \in S : x <= y
Truthy(p) == p # None /\ p[1] # 0
Drop(f, k) == [x \in (DOMAIN f) \ {k} |-> f[x]]
Put(f, k, v) == [x \in (DOMAIN f) \cup {k} |-> IF x = k THEN v ELSE f[x]]

\* bids, asks, orders    OrderBook.bids, .asks, ._orders (order_book.py:78-84)
\* heap                   the fields of the Order objects still referenced
\* pool                   OrderPool._pool (orders.py:78)
\* order_id_counter       Exchange._order_id_counter (exchange.py:20)
\* market_halted,
\* halt_end_time          CircuitBreakerMonitor state (circuit_breakers.py:27-28)
\* last                   the last call: its arguments and what it returned
\* before                 the book as the last call found it (history)
VARIABLES bids, asks, orders, heap, pool, order_id_counter,
          market_halted, halt_end_time, last, before

vars == <<bids, asks, orders, heap, pool, order_id_counter,
          market_halted, halt_end_time, last, before>>

(* ---------------- core/orders.py ---------------- *)

\* Order.__init__: every field is assigned, the links start as None.
NewOrder(order_id, side, quantity, order_type, price) ==
    [order_id |-> order_id, side |-> side, quantity |-> quantity,
     order_type |-> order_type, price |-> price,
     next_order |-> Null, prev_order |-> Null, parent_limit |-> None]

\* The dummy record OrderPool._expand_pool constructs.
DummyOrder == NewOrder(0, BUY, 0, LIMIT, None)

\* The deque OrderPool._pool.  Records are appended on the right and taken
\* from the left, and the pool is only expanded when it is empty, so the
\* deque is always a run of never-used records lo..hi (each a DummyOrder)
\* followed by the released records.
PoolSeq(p) == [i \in 1..(p.hi - p.lo + 1) |-> p.lo + i - 1] \o p.released
PoolLen(p) == (p.hi - p.lo + 1) + Len(p.released)

\* OrderPool._expand_pool(size): size new records; fresh is the next unused
\* record identity.
ExpandPool(p, size) ==
    [p EXCEPT !.lo = p.fresh, !.hi = p.fresh + size - 1, !.fresh = p.fresh + size]

\* get_order, "if not self._pool": expand by len // 2 or 1000.
ExpandIfEmpty(p) ==
    IF PoolLen(p) = 0
    THEN ExpandPool(p, IF PoolLen(p) \div 2 # 0 THEN PoolLen(p) \div 2
                       ELSE PoolExpandSize)
    ELSE p

\* get_order, self._pool.popleft(): the pool left and the record taken.
PopLeft(p) ==
    IF p.lo <= p.hi THEN [pool |-> [p EXCEPT !.lo = @ + 1], rec |-> p.lo]
    ELSE [pool |-> [p EXCEPT !.released = Tail(@)], rec |-> Head(p.released)]

\* get_order, order.__init__(*args): the record taken holds the new order.
Reinitialised(t, h, ord) ==
    [pool |-> t.pool, rec |-> t.rec, heap |-> Put(h, t.rec, ord)]

\* OrderPool.get_order: returns the pool, the heap and the record.
GetOrder(p, h, order_id, side, quantity, order_type, price) ==
    Reinitialised(PopLeft(ExpandIfEmpty(p)), h,
                  NewOrder(order_id, side, quantity, order_type, price))

\* OrderPool.release_order: reset the three links, append to the deque.
\* The other fields of a pooled record are dead: nothing reads a record of
\* the pool before get_order has run __init__ on it, which assigns every
\* field, so they are not kept (the record is held as a DummyOrder).
ReleaseOrder(p, h, r) ==
    [pool |-> [p EXCEPT !.released = Append(@, r)],
     heap |-> [h EXCEPT ![r] = [DummyOrder EXCEPT !.next_order = Null,
                                                  !.prev_order = Null,
                                                  !.parent_limit = None]]]

(* ---------------- core/order_book.py ---------------- *)

\* Limit.__init__
NewLimit(price) ==
    [price |-> price, total_volume |-> 0, order_count |-> 0,
     head_order |-> Null, tail_order |-> Null]

\* The Limit object a reference <<map, key>> denotes, and its replacement.
Level(b, ref) == IF ref[1] = "bids" THEN b.bids[ref[2]] ELSE b.asks[ref[2]]
SetLevel(b, ref, L) ==
    IF ref[1] = "bids" THEN [b EXCEPT !.bids[ref[2]] = L]
    ELSE [b EXCEPT !.asks[ref[2]] = L]

\* Limit.add_order, the tail of the method: with the links in heap h1 and
\* head and tail set in L1, add the order's quantity and 1 to the totals
\* and set its parent_limit.
Appended(b, ref, o, h1, L1) ==
    SetLevel([b EXCEPT !.heap = [h1 EXCEPT ![o].parent_limit = ref]], ref,
             [L1 EXCEPT !.total_volume = @ + h1[o].quantity,
                        !.order_count = @ + 1])

\* Limit.add_order(order): link at the tail, add volume and count.
LimitAddOrder(b, ref, o) ==
    IF Level(b, ref).head_order = Null
    THEN Appended(b, ref, o, b.heap,
                  [Level(b, ref) EXCEPT !.head_order = o, !.tail_order = o])
    ELSE Appended(b, ref, o,
                  [b.heap EXCEPT ![Level(b, ref).tail_order].next_order = o,
                                 ![o].prev_order = Level(b, ref).tail_order],
                  [Level(b, ref) EXCEPT !.tail_order = o])

\* Limit.remove_order, first two statements: subtract the order's remaining
\* quantity from total_volume and 1 from order_count.
\* (UncountedKeepVolume: the same without the subtraction from total_volume.)
UncountedKeepVolume(L, quantity) == [L EXCEPT !.order_count = @ - 1]
Uncounted(L, quantity) ==
    [L EXCEPT !.total_volume = @ - quantity, !.order_count = @ - 1]

\* Limit.remove_order, the two splices: the neighbours bypass the order.
SplicePrev(h, o) ==
    IF h[o].prev_order # Null
    THEN [h EXCEPT ![h[o].prev_order].next_order = h[o].next_order]
    ELSE h
SpliceNext(h, o) ==
    IF h[o].next_order # Null
    THEN [h EXCEPT ![h[o].next_order].prev_order = h[o].prev_order]
    ELSE h

\* Limit.remove_order, head and tail: each moves off the removed order.
MoveHead(L, h, o) ==
    IF L.head_order = o THEN [L EXCEPT !.head_order = h[o].next_order] ELSE L
MoveTail(L, h, o) ==
    IF L.tail_order = o THEN [L EXCEPT !.tail_order = h[o].prev_order] ELSE L

\* Limit.remove_order after the splices (heap h2): fix head and tail, clear
\* parent_limit.  The removed order's own next_order and prev_order are left
\* as they were.
Unlinked(b, ref, o, h2) ==
    SetLevel([b EXCEPT !.heap = [h2 EXCEPT ![o].parent_limit = None]], ref,
             MoveTail(MoveHead(Uncounted(Level(b, ref), b.heap[o].quantity),
                               h2, o), h2, o))

\* Limit.remove_order(order)
LimitRemoveOrder(b, ref, o) ==
    Unlinked(b, ref, o, SpliceNext(SplicePrev(b.heap, o), o))

\* The side map and key OrderBook.add_order files an order under: bids are
\* keyed by the negated price.
SlotOf(ord) ==
    IF ord.side = BUY THEN <<"bids", -(ord.price[1])>>
    ELSE <<"asks", ord.price[1]>>

\* OrderBook.add_order, "if key not in book_side": create the level.
WithLevel(b, ref, price) ==
    IF ref[1] = "bids"
    THEN IF ref[2] \in DOMAIN b.bids THEN b
         ELSE [b EXCEPT !.bids = Put(@, ref[2], NewLimit(price))]
    ELSE IF ref[2] \in DOMAIN b.asks THEN b
         ELSE [b EXCEPT !.asks = Put(@, ref[2], NewLimit(price))]

\* OrderBook.add_order, last statement: enter the order in the handle table.
Registered(b, order_id, o) == [b EXCEPT !.orders = Put(@, order_id, o)]

\* OrderBook.add_order(order): ValueError on a duplicate id; otherwise find
\* or create the level, append, and enter the order in the handle table.
AddOrder(b, o) ==
    IF b.heap[o].order_id \in DOMAIN b.orders
    THEN [b EXCEPT !.raised = "ValueError"]
    ELSE Registered(LimitAddOrder(WithLevel(b, SlotOf(b.heap[o]),
                                            b.heap[o].price[1]),
                                  SlotOf(b.heap[o]), o),
                    b.heap[o].order_id, o)

\* OrderBook.cancel_order, "if limit_level.order_count == 0": delete the
\* level under the key derived from the order's side and the level's price
\* (KeyError if that key is absent).
\* (DeleteIfEmptyNever: the same without the deletion.)
DeleteIfEmptyNever(b, ref, o) == b
DeleteIfEmpty(b, ref, o) ==
    IF Level(b, ref).order_count # 0 THEN b
    ELSE IF b.heap[o].side = BUY
         THEN IF -(Level(b, ref).price) \in DOMAIN b.bids
              THEN [b EXCEPT !.bids = Drop(@, -(Level(b, ref).price))]
              ELSE [b EXCEPT !.raised = "KeyError"]
         ELSE IF Level(b, ref).price \in DOMAIN b.asks
              THEN [b EXCEPT !.asks = Drop(@, Level(b, ref).price)]
              ELSE [b EXCEPT !.raised = "KeyError"]

\* OrderBook.cancel_order after the pop: unlink the order o from its parent
\* level, if it has one, and delete the level if that emptied it.
Removed(b, o) ==
    [book  |-> IF b.heap[o].parent_limit = None THEN b
               ELSE DeleteIfEmpty(LimitRemoveOrder(b, b.heap[o].parent_limit, o),
                                  b.heap[o].parent_limit, o),
     order |-> o]

\* OrderBook.cancel_order(order_id): pop from the handle table, then unlink.
\* Returns the book and the popped record (Null for None).
\* (CancelOrderKeepHandle: the same with the entry read but not popped.)
CancelOrderKeepHandle(b, order_id) ==
    IF order_id \notin DOMAIN b.orders THEN [book |-> b, order |-> Null]
    ELSE Removed(b, b.orders[order_id])
CancelOrder(b, order_id) ==
    IF order_id \notin DOMAIN b.orders THEN [book |-> b, order |-> Null]
    ELSE Removed([b EXCEPT !.orders = Drop(@, order_id)], b.orders[order_id])

\* OrderBook.best_bid / best_ask: None for an empty side, else the price of
\* the level under the smallest key.
BestBidOf(b) == IF DOMAIN b.bids = {} THEN None
                ELSE <<b.bids[MinOf(DOMAIN b.bids)].price>>
BestAskOf(b) == IF DOMAIN b.asks = {} THEN None
                ELSE <<b.asks[MinOf(DOMAIN b.asks)].price>>

(* ---------------- core/matching_engine.py ---------------- *)

\* Trade.__init__ (the timestamp is the taker's and plays no part here).
NewTrade(maker_order_id, taker_order_id, price, quantity) ==
    [maker_order_id |-> maker_order_id, taker_order_id |-> taker_order_id,
     price |-> price, quantity |-> quantity]

\* book_to_match: asks for a BUY taker, bids for a SELL taker.
BookToMatch(b, side) == IF side = BUY THEN "asks" ELSE "bids"
BookToMatchKeys(b, side) == IF side = BUY THEN DOMAIN b.asks ELSE DOMAIN b.bids

\* book_to_match.peekitem(0)[1]: the level under the smallest key.
\* (WorstLevelRef: the level under the largest key.)
WorstLevelRef(b, side) ==
    <<BookToMatch(b, side),
      CHOOSE x \in BookToMatchKeys(b, side) :
          \A y \in BookToMatchKeys(b, side) : x >= y>>
BestLevelRef(b, side) ==
    <<BookToMatch(b, side), MinOf(BookToMatchKeys(b, side))>>

\* The two is_matchable lambdas, read as a loop condition:
\* "best_ask and price >= best_ask" is false when best_ask is None or 0.
\* (IsMatchableAnyPrice: only asks for a best opposite price.)
IsMatchableAnyPrice(b, side, price) ==
    IF side = BUY THEN Truthy(BestAskOf(b)) ELSE Truthy(BestBidOf(b))
IsMatchable(b, side, price) ==
    IF side = BUY
    THEN Truthy(BestAskOf(b)) /\ price[1] >= BestAskOf(b)[1]
    ELSE Truthy(BestBidOf(b)) /\ price[1] <= BestBidOf(b)[1]

\* price_condition: only LIMIT orders consult their price; every other type
\* matches while the opposite side is non-empty.
PriceCondition(b, r) ==
    IF b.heap[r].order_type = LIMIT
    THEN IsMatchable(b, b.heap[r].side, b.heap[r].price)
    ELSE BookToMatchKeys(b, b.heap[r].side) # {}

\* The state of match_order while it runs: the book, the trades so far,
\* current_order_node and next_order_node.
Matching(b) == [book |-> b, trades |-> <<>>, node |-> Null, next |-> Null]

\* Inner loop, the fill of one maker by q: the level's total_volume is
\* reduced by hand, then both quantities.
\* (TradedNoVolume: the same without the reduction of total_volume.)
TradedNoVolume(b, ref, node, r, q) ==
    [b EXCEPT !.heap[r].quantity = @ - q, !.heap[node].quantity = @ - q]
Traded(b, ref, node, r, q) ==
    SetLevel([b EXCEPT !.heap[r].quantity = @ - q, !.heap[node].quantity = @ - q],
             ref, [Level(b, ref) EXCEPT !.total_volume = @ - q])

\* Inner loop, first half: trade min(taker, maker) at the level's price,
\* record the trade and read next_order_node (the fill leaves the links
\* alone, so the node's next_order is what it was).
Fill(w, ref, r) ==
    [book   |-> Traded(w.book, ref, w.node, r,
                       Min(w.book.heap[r].quantity, w.book.heap[w.node].quantity)),
     trades |-> Append(w.trades,
                       NewTrade(w.book.heap[w.node].order_id,
                                w.book.heap[r].order_id,
                                Level(w.book, ref).price,
                                Min(w.book.heap[r].quantity,
                                    w.book.heap[w.node].quantity))),
     node   |-> w.node,
     next   |-> w.book.heap[w.node].next_order]

\* Inner loop, second half: a maker that reached 0 is cancelled through the
\* handle table; the walk moves to next_order_node.
\* (RemoveFilledAlways: cancels the maker whether it reached 0 or not.)
RemoveFilledAlways(w) ==
    [w EXCEPT !.book = CancelOrder(w.book, w.book.heap[w.node].order_id).book,
              !.node = w.next]
RemoveFilled(w) ==
    [w EXCEPT !.book = IF w.book.heap[w.node].quantity = 0
                       THEN CancelOrder(w.book, w.book.heap[w.node].order_id).book
                       ELSE w.book,
              !.node = w.next]

\* The inner while loop: walk the level's queue while there is a node and
\* the taker has quantity left.  An exception ends the walk.
\* (WalkLevelPastFilled: the walk goes on to the end of the queue although
\* the taker has nothing left.)
RECURSIVE WalkLevelPastFilled(_, _, _)
WalkLevelPastFilled(w, ref, r) ==
    IF w.node = Null \/ w.book.raised # ""
    THEN w
    ELSE WalkLevelPastFilled(RemoveFilled(Fill(w, ref, r)), ref, r)
RECURSIVE WalkLevel(_, _, _)
WalkLevel(w, ref, r) ==
    IF w.node = Null \/ w.book.heap[r].quantity <= 0 \/ w.book.raised # ""
    THEN w
    ELSE WalkLevel(RemoveFilled(Fill(w, ref, r)), ref, r)

\* Outer loop, current_order_node = best_price_limit.head_order
AtHead(w, ref) == [w EXCEPT !.node = Level(w.book, ref).head_order]

\* The outer while loop: take the best opposite level, walk it from its
\* head, re-evaluate price_condition.
\* (MatchLoopOneLevel: walks the best level and stops.)
MatchLoopOneLevel(w, r) ==
    IF ~(w.book.heap[r].quantity > 0 /\ PriceCondition(w.book, r))
       \/ w.book.raised # ""
    THEN w
    ELSE WalkLevel(AtHead(w, BestLevelRef(w.book, w.book.heap[r].side)),
                   BestLevelRef(w.book, w.book.heap[r].side), r)
RECURSIVE MatchLoop(_, _)
MatchLoop(w, r) ==
    IF ~(w.book.heap[r].quantity > 0 /\ PriceCondition(w.book, r))
       \/ w.book.raised # ""
    THEN w
    ELSE MatchLoop(WalkLevel(AtHead(w, BestLevelRef(w.book, w.book.heap[r].side)),
                             BestLevelRef(w.book, w.book.heap[r].side), r), r)

\* match_order, after the loop: what is left of a LIMIT order rests.
\* (RestRemainderNever: nothing rests.  RestRemainderWithZero: a LIMIT
\* order rests also with nothing left.  RestRemainderWithIOC: what is left
\* of an IOC order rests too.)
RestRemainderNever(w, r) == w
RestRemainderWithZero(w, r) ==
    IF w.book.raised = ""
       /\ w.book.heap[r].quantity >= 0 /\ w.book.heap[r].order_type = LIMIT
    THEN [w EXCEPT !.book = AddOrder(w.book, r)]
    ELSE w
RestRemainderWithIOC(w, r) ==
    IF w.book.raised = ""
       /\ w.book.heap[r].quantity > 0
       /\ w.book.heap[r].order_type \in {LIMIT, IOC}
    THEN [w EXCEPT !.book = AddOrder(w.book, r)]
    ELSE w
RestRemainder(w, r) ==
    IF w.book.raised = ""
       /\ w.book.heap[r].quantity > 0 /\ w.book.heap[r].order_type = LIMIT
    THEN [w EXCEPT !.book = AddOrder(w.book, r)]
    ELSE w

\* MatchingEngine.match_order: returns the book and the trades.
MatchOrder(b, r) == RestRemainder(MatchLoop(Matching(b), r), r)

(* ---------------- indian_market ---------------- *)

\* TradingSessionManager.get_current_session: hard-wired to "regular".
GetCurrentSession(current_time) == "regular"

\* TradingSessionManager.SESSION_RULES
SessionRules(session) ==
    CASE session = "pre_market"  -> {LIMIT, MARKET}
      [] session = "regular"     -> {LIMIT, MARKET, STOP_LOSS, IOC}
      [] session = "post_market" -> {LIMIT}
      [] OTHER                   -> {}

\* TradingSessionManager.is_order_allowed
IsOrderAllowed(order_type, current_time) ==
    order_type \in SessionRules(GetCurrentSession(current_time))

\* CircuitBreakerMonitor.check_price_band: lower_band <= p <= upper_band
\* with the bands reference_price * (1 -/+ band), compared in hundredths.
\* (100 * 1.1 is 110.00000000000001 in floating point; no whole price lies
\* between that and 110.)
CheckPriceBand(order_price) ==
    /\ ReferencePrice * (100 - BandPercent) <= order_price * 100
    /\ order_price * 100 <= ReferencePrice * (100 + BandPercent)

\* SEBIComplianceEngine.validate_order: halt, session, then the band for a
\* price that is present and non-zero ("if order.price and ...").
ValidateOrder(ord, current_time) ==
    IF market_halted THEN [ok |-> FALSE, reason |-> "halted"]
    ELSE IF ~IsOrderAllowed(ord.order_type, current_time)
         THEN [ok |-> FALSE, reason |-> "session"]
    ELSE IF Truthy(ord.price) /\ ~CheckPriceBand(ord.price[1])
         THEN [ok |-> FALSE, reason |-> "band"]
    ELSE [ok |-> TRUE, reason |-> "compliant"]

\* check_index_circuit_breaker, the tier reached by a move of diff:
\* |current - reference| / reference compared in hundredths.
\* (TriggeredLevelStrict: a tier is reached only by a move beyond it.)
TriggeredLevelStrict(diff) ==
    IF diff * 100 > 20 * ReferencePrice THEN 20
    ELSE IF diff * 100 > 15 * ReferencePrice THEN 15
    ELSE IF diff * 100 > 10 * ReferencePrice THEN 10
    ELSE 0
TriggeredLevel(diff) ==
    IF diff * 100 >= 20 * ReferencePrice THEN 20
    ELSE IF diff * 100 >= 15 * ReferencePrice THEN 15
    ELSE IF diff * 100 >= 10 * ReferencePrice THEN 10
    ELSE 0

\* CircuitBreakerMonitor.INDEX_CIRCUIT_BREAKERS by tier and time of day
\* (minutes since midnight): before 13:00, 13:00 to 14:30, after.
HaltAction(level, current_time) ==
    IF level = 20 THEN "halt_for_day"
    ELSE IF current_time < 13 * 60
         THEN (IF level = 10 THEN "45" ELSE "105")
    ELSE IF current_time < 14 * 60 + 30
         THEN (IF level = 10 THEN "15" ELSE "45")
    ELSE (IF level = 10 THEN "0" ELSE "close_market")

\* CircuitBreakerMonitor.check_index_circuit_breaker
HaltInfo(level, current_time) ==
    IF level = 0 THEN [triggered |-> FALSE, level |-> 0, action |-> ""]
    ELSE IF level = 20
         THEN [triggered |-> TRUE, level |-> 0, action |-> "halt_for_day"]
    ELSE [triggered |-> TRUE, level |-> level,
          action |-> HaltAction(level, current_time)]
CheckIndexCircuitBreaker(current_price, current_time) ==
    HaltInfo(TriggeredLevel(IF current_price >= ReferencePrice
                            THEN current_price - ReferencePrice
                            ELSE ReferencePrice - current_price),
             current_time)

\* SEBIComplianceEngine.post_trade_check: evaluates the breaker and prints;
\* the assignments to market_halted and halt_end_time are commented out in
\* the source, so the compliance state is returned as it is.
PostTradeCheck(trade_price, current_time) ==
    IF CheckIndexCircuitBreaker(trade_price, current_time).triggered
    THEN [market_halted |-> market_halted, halt_end_time |-> halt_end_time]
    ELSE [market_halted |-> market_halted, halt_end_time |-> halt_end_time]

(* ---------------- object lifetime ---------------- *)

\* The records still referenced after a call: from the handle table, the
\* pool, the head and tail of every level, and the links of such records.
\* Everything else is garbage and leaves the heap.
RECURSIVE Closure(_, _)
Closure(h, S) ==
    IF ((S \cup {h[x].next_order : x \in S} \cup {h[x].prev_order : x \in S})
        \ {Null}) = S
    THEN S
    ELSE Closure(h, (S \cup {h[x].next_order : x \in S}
                       \cup {h[x].prev_order : x \in S}) \ {Null})

Roots(b, p) ==
    ({b.orders[i] : i \in DOMAIN b.orders}
     \cup {p.released[i] : i \in 1..Len(p.released)}
     \cup {b.bids[k].head_order : k \in DOMAIN b.bids}
     \cup {b.bids[k].tail_order : k \in DOMAIN b.bids}
     \cup {b.asks[k].head_order : k \in DOMAIN b.asks}
     \cup {b.asks[k].tail_order : k \in DOMAIN b.asks}) \ {Null}

Collect(b, p) == [x \in Closure(b.heap, Roots(b, p)) |-> b.heap[x]]

(* ---------------- what a client can observe of the book ---------------- *)

\* The records linked from node by next_order, in order.  The walk is cut
\* after fuel steps, so a cycle shows as an over-long queue.
RECURSIVE QueueFrom(_, _, _)
QueueFrom(h, node, fuel) ==
    IF node = Null \/ fuel = 0 THEN <<>>
    ELSE IF node \notin DOMAIN h THEN <<node>>
    ELSE <<node>> \o QueueFrom(h, h[node].next_order, fuel - 1)

QueueOf(b, L) == QueueFrom(b.heap, L.head_order, Cardinality(DOMAIN b.heap) + 1)

\* A level as its price, totals and its queue q: the id and the remaining
\* quantity of each order, in queue order.
LevelViewOf(L, h, q) ==
    [price |-> L.price, total_volume |-> L.total_volume,
     order_count |-> L.order_count,
     queue |-> [i \in 1..Len(q) |->
                  [order_id |-> h[q[i]].order_id, quantity |-> h[q[i]].quantity]]]
LevelView(b, L) == LevelViewOf(L, b.heap, QueueOf(b, L))

\* The book as the claims speak of it: best prices and, per side, the
\* levels with their totals and queue order.
View(b) ==
    [best_bid |-> BestBidOf(b), best_ask |-> BestAskOf(b),
     bids |-> [k \in DOMAIN b.bids |-> LevelView(b, b.bids[k])],
     asks |-> [k \in DOMAIN b.asks |-> LevelView(b, b.asks[k])]]

(* ---------------- exchange.py ---------------- *)

Book == [bids |-> bids, asks |-> asks, orders |-> orders, heap |-> heap,
         raised |-> ""]

NoCall ==
    [op |-> "init", order_id |-> 0, side |-> BUY, quantity |-> 0,
     order_type |-> LIMIT, price |-> None, accepted |-> FALSE,
     cancelled |-> FALSE, reason |-> "", trades |-> <<>>, remaining |-> 0,
     rec |-> Null, raised |-> "", current_time |-> 0,
     halt_info |-> [triggered |-> FALSE, level |-> 0, action |-> ""]]

Init ==
    /\ bids = <<>>
    /\ asks = <<>>
    /\ orders = <<>>
    /\ heap = <<>>
    /\ pool = [lo |-> 1, hi |-> InitialPoolSize, fresh |-> InitialPoolSize + 1,
               released |-> <<>>]
    /\ order_id_counter = 0
    /\ market_halted = FALSE
    /\ halt_end_time = None
    /\ last = NoCall
    /\ before = View(Book)

\* submit_order, "if not is_valid": the record goes back to the pool and
\* the call returns False, the reason and no trades.
\* (RejectedAndHalted: the same, and the rejection halts the market.)
RejectedAndHalted(rel, call) ==
    [book |-> [Book EXCEPT !.heap = rel.heap], pool |-> rel.pool,
     market_halted |-> TRUE, halt_end_time |-> halt_end_time,
     call |-> call]
Rejected(rel, call) ==
    [book |-> [Book EXCEPT !.heap = rel.heap], pool |-> rel.pool,
     market_halted |-> market_halted, halt_end_time |-> halt_end_time,
     call |-> call]

\* submit_order, "if trades": the post-trade check on the last trade price.
AfterTrades(m, current_time) ==
    IF m.trades # <<>> /\ m.book.raised = ""
    THEN PostTradeCheck(m.trades[Len(m.trades)].price, current_time)
    ELSE [market_halted |-> market_halted, halt_end_time |-> halt_end_time]

\* submit_order after match_order returned m for the record g.rec: post-trade
\* check, then True and the trades (nothing is returned when an exception
\* left match_order).
\* (AcceptedAndReleased: the record of an accepted order goes to the pool too.)
AcceptedAndReleased(m, c, g, call) ==
    [book |-> m.book, pool |-> [g.pool EXCEPT !.released = Append(@, g.rec)],
     market_halted |-> c.market_halted, halt_end_time |-> c.halt_end_time,
     call |-> [call EXCEPT
                 !.accepted = (m.book.raised = ""),
                 !.trades = IF m.book.raised = "" THEN m.trades ELSE <<>>,
                 !.remaining = m.book.heap[g.rec].quantity,
                 !.raised = m.book.raised]]
Accepted(m, c, g, call) ==
    [book |-> m.book, pool |-> g.pool,
     market_halted |-> c.market_halted, halt_end_time |-> c.halt_end_time,
     call |-> [call EXCEPT
                 !.accepted = (m.book.raised = ""),
                 !.trades = IF m.book.raised = "" THEN m.trades ELSE <<>>,
                 !.remaining = m.book.heap[g.rec].quantity,
                 !.raised = m.book.raised]]

\* submit_order from the gate on, for the record g.rec handed out by the
\* pool.
Gated(g, v, call, current_time) ==
    IF ~v.ok
    THEN Rejected(ReleaseOrder(g.pool, g.heap, g.rec),
                  [call EXCEPT !.reason = v.reason, !.remaining = call.quantity])
    ELSE Accepted(MatchOrder([Book EXCEPT !.heap = g.heap], g.rec),
                  AfterTrades(MatchOrder([Book EXCEPT !.heap = g.heap], g.rec),
                              current_time),
                  g, [call EXCEPT !.reason = v.reason])

\* submit_order, the record the pool hands out: validate it, go on.
Validated(g, call, current_time) ==
    Gated(g, ValidateOrder(g.heap[g.rec], current_time),
          [call EXCEPT !.rec = g.rec], current_time)

\* Exchange.submit_order: next id, record from the pool, gate, match,
\* post-trade check.  The result is the state the call leaves and what it
\* returned.
SubmitOrderResult(side, quantity, order_type, price, current_time) ==
    Validated(GetOrder(pool, heap, order_id_counter + 1, side, quantity,
                       order_type, price),
              [NoCall EXCEPT !.op = "submit", !.order_id = order_id_counter + 1,
                             !.side = side, !.quantity = quantity,
                             !.order_type = order_type, !.price = price,
                             !.current_time = current_time],
              current_time)

\* (SubmitOrderKeepIdOnReject: a rejected submit gives its id back.)
SubmitOrderKeepIdOnReject(side, quantity, order_type, price, current_time) ==
    /\ order_id_counter < MaxOrders
    /\ \E res \in {SubmitOrderResult(side, quantity, order_type, price,
                                     current_time)} :
          /\ order_id_counter' = IF res.call.accepted
                                 THEN order_id_counter + 1
                                 ELSE order_id_counter
          /\ bids' = res.book.bids
          /\ asks' = res.book.asks
          /\ orders' = res.book.orders
          /\ heap' = Collect(res.book, res.pool)
          /\ pool' = res.pool
          /\ market_halted' = res.market_halted
          /\ halt_end_time' = res.halt_end_time
          /\ last' = res.call
          /\ before' = View(Book)
SubmitOrder(side, quantity, order_type, price, current_time) ==
    /\ order_id_counter < MaxOrders
    /\ \E res \in {SubmitOrderResult(side, quantity, order_type, price,
                                     current_time)} :
          /\ order_id_counter' = order_id_counter + 1
          /\ bids' = res.book.bids
          /\ asks' = res.book.asks
          /\ orders' = res.book.orders
          /\ heap' = Collect(res.book, res.pool)
          /\ pool' = res.pool
          /\ market_halted' = res.market_halted
          /\ halt_end_time' = res.halt_end_time
          /\ last' = res.call
          /\ before' = View(Book)

\* cancel_order, "if cancelled_order": release the record, return True;
\* otherwise return False.
\* (ReleasedAlwaysTrue: returns True whatever the book returned.)
ReleasedAlwaysTrue(c, rel, call) ==
    IF c.order # Null /\ c.book.raised = ""
    THEN [book |-> [c.book EXCEPT !.heap = rel.heap], pool |-> rel.pool,
          call |-> [call EXCEPT !.cancelled = TRUE]]
    ELSE [book |-> c.book, pool |-> pool,
          call |-> [call EXCEPT !.cancelled = TRUE]]
Released(c, rel, call) ==
    IF c.order # Null /\ c.book.raised = ""
    THEN [book |-> [c.book EXCEPT !.heap = rel.heap], pool |-> rel.pool,
          call |-> [call EXCEPT !.cancelled = TRUE]]
    ELSE [book |-> c.book, pool |-> pool, call |-> call]

\* cancel_order once the book returned c: the call record, and the release.
Cancelled(c, order_id) ==
    Released(c, ReleaseOrder(pool, c.book.heap, c.order),
             [NoCall EXCEPT !.op = "cancel", !.order_id = order_id,
                            !.rec = c.order, !.raised = c.book.raised])

\* Exchange.cancel_order: delegate to the book; release the record of a
\* cancelled order to the pool.
CancelOrderResult(order_id) == Cancelled(CancelOrder(Book, order_id), order_id)

CancelOrderCall(order_id) ==
    \E res \in {CancelOrderResult(order_id)} :
       /\ bids' = res.book.bids
       /\ asks' = res.book.asks
       /\ orders' = res.book.orders
       /\ heap' = Collect(res.book, res.pool)
       /\ pool' = res.pool
       /\ last' = res.call
       /\ before' = View(Book)
       /\ UNCHANGED <<order_id_counter, market_halted, halt_end_time>>

\* The calls a client can make.  As in the data model, a MARKET order
\* carries no price and every other type carries one.
Submit ==
    \E side \in Sides, quantity \in Quantities, order_type \in OrderTypes,
       price \in {None} \cup {<<p>> : p \in Prices}, current_time \in Times :
        /\ (order_type = MARKET <=> price = None)
        /\ SubmitOrder(side, quantity, order_type, price, current_time)

Cancel == \E order_id \in CancelIds : CancelOrderCall(order_id)

Next == Submit \/ Cancel

Spec == Init /\ [][Next]_vars

\* The same calls with the gate's inputs: any price around the band, any
\* time of day.
GateSubmit ==
    \E side \in Sides, quantity \in GateQuantities, order_type \in OrderTypes,
       price \in {None} \cup {<<p>> : p \in GatePrices},
       current_time \in GateTimes :
        /\ order_id_counter < MaxGateOrders
        /\ (order_type = MARKET <=> price = None)
        /\ SubmitOrder(side, quantity, order_type, price, current_time)

GateNext == GateSubmit \/ Cancel

GateSpec == Init /\ [][GateNext]_vars

\* A direct call of CircuitBreakerMonitor.check_index_circuit_breaker: it
\* reads reference_price and changes nothing; the call and the dictionary it
\* returned are recorded in last.
CheckBreakerCall(current_price, current_time) ==
    /\ last' = [NoCall EXCEPT
                  !.op = "check_index_circuit_breaker",
                  !.price = <<current_price>>,
                  !.current_time = current_time,
                  !.halt_info = CheckIndexCircuitBreaker(current_price,
                                                         current_time)]
    /\ UNCHANGED <<bids, asks, orders, heap, pool, order_id_counter,
                   market_halted, halt_end_time, before>>

CheckBreaker ==
    \E current_price \in BreakerPrices, current_time \in BreakerTimes :
        CheckBreakerCall(current_price, current_time)

BreakerSpec == Init /\ [][CheckBreaker]_vars

(* ======================= properties ======================= *)

Refs == {<<"bids", k>> : k \in DOMAIN bids} \cup {<<"asks", k>> : k \in DOMAIN asks}

RECURSIVE SumQuantity(_, _)
SumQuantity(h, q) ==
    IF q = <<>> THEN 0 ELSE h[Head(q)].quantity + SumQuantity(h, Tail(q))

\* The levels whose queue holds record r.
LevelsHolding(r) ==
    {ref \in Refs : \E i \in 1..Len(QueueOf(Book, Level(Book, ref))) :
                       QueueOf(Book, Level(Book, ref))[i] = r}

\* No call ends in an exception of the book (ValueError, KeyError).
NoException == last.raised = ""

\* C1: after every call, each level's total_volume is the sum of the
\* quantities of the orders linked in its queue, its order_count is the
\* length of that queue, and head_order is null iff tail_order is null iff
\* order_count is 0.
C1_LevelTotals ==
    \A ref \in Refs :
        LET L == Level(Book, ref)
            q == QueueOf(Book, L)
        IN /\ \A i \in 1..Len(q) : q[i] \in DOMAIN heap
           /\ L.total_volume = SumQuantity(heap, q)
           /\ L.order_count = Len(q)
           /\ (L.head_order = Null) <=> (L.tail_order = Null)
           /\ (L.tail_order = Null) <=> (L.order_count = 0)

\* C1 witness: the last submit traded and left the maker of its last trade
\* resting, partially filled, at the head of a level that still holds volume.
C1_Witness ==
    /\ last.op = "submit" /\ last.trades # <<>>
    /\ last.trades[Len(last.trades)].maker_order_id \in DOMAIN orders
    /\ \E ref \in Refs :
          /\ Level(Book, ref).head_order
               = orders[last.trades[Len(last.trades)].maker_order_id]
          /\ Level(Book, ref).total_volume > 0

\* C2: after every call, an order id is in the handle table iff its order is
\* linked into the queue of exactly one level of bids or asks, and then the
\* order's parent_limit is that level; ids of filled makers, cancelled
\* orders and takers that did not rest are in no queue and not in the table.
C2_HandleTable ==
    /\ \A id \in DOMAIN orders :
          /\ orders[id] \in DOMAIN heap
          /\ heap[orders[id]].order_id = id
          /\ Cardinality(LevelsHolding(orders[id])) = 1
          /\ heap[orders[id]].parent_limit \in LevelsHolding(orders[id])
    /\ \A ref \in Refs :
          LET q == QueueOf(Book, Level(Book, ref))
          IN /\ \A i \in 1..Len(q) :
                   /\ q[i] \in DOMAIN heap
                   /\ heap[q[i]].order_id \in DOMAIN orders
                   /\ orders[heap[q[i]].order_id] = q[i]
             /\ \A i, j \in 1..Len(q) : i # j => q[i] # q[j]

\* C2 witness: a submit filled one maker completely and then rested its own
\* remainder, so the table lost one id and gained another.
C2_Witness ==
    /\ last.op = "submit" /\ last.trades # <<>>
    /\ last.trades[1].maker_order_id \notin DOMAIN orders
    /\ last.order_id \in DOMAIN orders

\* C3: after every call, no level of bids or asks has order_count 0 or an
\* empty queue, and no two levels of a side have the same price (each level
\* sits under the key of its own price).
C3_NoEmptyLevel ==
    /\ \A ref \in Refs :
          /\ Level(Book, ref).order_count # 0
          /\ QueueOf(Book, Level(Book, ref)) # <<>>
    /\ \A k \in DOMAIN bids : bids[k].price = -k
    /\ \A k \in DOMAIN asks : asks[k].price = k
    /\ \A k1, k2 \in DOMAIN bids : k1 # k2 => bids[k1].price # bids[k2].price
    /\ \A k1, k2 \in DOMAIN asks : k1 # k2 => asks[k1].price # asks[k2].price

\* C3 witness: a call took the last order of a level (by a fill or by a
\* cancel) and the level is gone while another level remains.
C3_Witness ==
    /\ Refs # {}
    /\ \/ \E k \in DOMAIN before.bids : k \notin DOMAIN bids
       \/ \E k \in DOMAIN before.asks : k \notin DOMAIN asks

\* The orders resting in one side of a view, each with its level's price.
RestingIn(side_view) ==
    UNION {{[order_id |-> side_view[k].queue[i].order_id,
             quantity |-> side_view[k].queue[i].quantity,
             price    |-> side_view[k].price] :
               i \in 1..Len(side_view[k].queue)} : k \in DOMAIN side_view}

\* The side a taker matched against, as the last call found it.
OppositeBefore(side) == IF side = BUY THEN before.asks ELSE before.bids
OppositeNow(side) == IF side = BUY THEN View(Book).asks ELSE View(Book).bids
IdsBefore == {x.order_id : x \in RestingIn(before.bids) \cup RestingIn(before.asks)}

\* x has priority over y for a taker of the given side: better price, or the
\* same price and the smaller order id.
HasPriority(x, y, side) ==
    IF side = BUY
    THEN x.price < y.price \/ (x.price = y.price /\ x.order_id <= y.order_id)
    ELSE x.price > y.price \/ (x.price = y.price /\ x.order_id <= y.order_id)

RECURSIVE InPriority(_, _)
InPriority(S, side) ==
    IF S = {} THEN <<>>
    ELSE LET m == CHOOSE x \in S : \A y \in S : HasPriority(x, y, side)
         IN <<m>> \o InPriority(S \ {m}, side)

RECURSIVE SumTrades(_)
SumTrades(trades) ==
    IF trades = <<>> THEN 0 ELSE Head(trades).quantity + SumTrades(Tail(trades))

RECURSIVE FillsOf(_, _)
FillsOf(id, trades) ==
    IF trades = <<>> THEN 0
    ELSE (IF Head(trades).maker_order_id = id THEN Head(trades).quantity ELSE 0)
         + FillsOf(id, Tail(trades))

\* The quantity resting under an id (0 when the id is not in the book).
RestingQuantity(id) ==
    IF id \in DOMAIN orders THEN heap[orders[id]].quantity ELSE 0

\* C4 (as claimed): after every call, when both best_bid and best_ask exist,
\* best_bid < best_ask.
C4_NotCrossed ==
    (BestBidOf(Book) # None /\ BestAskOf(Book) # None)
        => BestBidOf(Book)[1] < BestAskOf(Book)[1]

\* C5: the trades of one submit are the makers of the opposite side taken in
\* price-time priority (better price first, then smaller id), with no maker
\* skipped; every trade but the last fills its maker completely; a maker
\* the last trade left partially filled is still first in priority, at the
\* head of its level.
C5_PriceTimePriority ==
    last.op = "submit" =>
        LET pl  == InPriority(RestingIn(OppositeBefore(last.side)), last.side)
            now == InPriority(RestingIn(OppositeNow(last.side)), last.side)
            n   == Len(last.trades)
        IN /\ n <= Len(pl)
           /\ \A i \in 1..n : last.trades[i].maker_order_id = pl[i].order_id
           /\ \A i \in 1..(n - 1) : last.trades[i].quantity = pl[i].quantity
           /\ (n > 0 /\ last.trades[n].quantity < pl[n].quantity) =>
                 /\ now # <<>>
                 /\ now[1].order_id = pl[n].order_id
                 /\ \E ref \in Refs :
                       /\ Level(Book, ref).price = pl[n].price
                       /\ Level(Book, ref).head_order = orders[pl[n].order_id]

\* C5 witness: the example scaled down.  With asks 1@100 (id 1) and 2@101
\* (id 2), MARKET BUY 2 (id 3) trades (maker 1, 100, 1) then (maker 2, 101, 1)
\* and leaves best_ask 101 with volume 1.
C5_Witness ==
    /\ last.op = "submit" /\ last.order_type = MARKET /\ last.side = BUY
    /\ last.trades = <<NewTrade(1, 3, 100, 1), NewTrade(2, 3, 101, 1)>>
    /\ BestAskOf(Book) = <<101>>
    /\ asks[101].total_volume = 1

\* C6: every trade of a submit has the price of the level its maker rested
\* in, and for a LIMIT taker no trade is worse than the taker's price.
C6_TradePrice ==
    last.op = "submit" =>
        \A i \in 1..Len(last.trades) :
            /\ \E x \in RestingIn(OppositeBefore(last.side)) :
                  /\ x.order_id = last.trades[i].maker_order_id
                  /\ x.price = last.trades[i].price
            /\ (last.order_type = LIMIT /\ last.side = BUY)
                  => last.trades[i].price <= last.price[1]
            /\ (last.order_type = LIMIT /\ last.side = SELL)
                  => last.trades[i].price >= last.price[1]

\* C6 witness: a LIMIT BUY traded at a price strictly below its limit.
C6_Witness ==
    /\ last.op = "submit" /\ last.order_type = LIMIT /\ last.side = BUY
    /\ last.trades # <<>>
    /\ last.trades[1].price < last.price[1]

\* C7 (as claimed): for every submit, the trade quantities sum to at most
\* the submitted quantity, each is strictly positive, and the taker's
\* remaining quantity is the submitted quantity minus that sum.
C7_TakerQuantity ==
    last.op = "submit" =>
        /\ SumTrades(last.trades) <= last.quantity
        /\ \A i \in 1..Len(last.trades) : last.trades[i].quantity > 0
        /\ last.remaining = last.quantity - SumTrades(last.trades)

\* C8: for every order resting when a submit is called, its quantity then
\* equals the quantity it has resting afterwards plus the trades that name
\* it as maker; an order named in no trade still rests with its quantity
\* unchanged; and every trade names an order that was resting.
C8_MakerConservation ==
    last.op = "submit" =>
        /\ \A x \in RestingIn(before.bids) \cup RestingIn(before.asks) :
              /\ x.quantity
                   = RestingQuantity(x.order_id) + FillsOf(x.order_id, last.trades)
              /\ FillsOf(x.order_id, last.trades) = 0
                   => x.order_id \in DOMAIN orders
        /\ \A i \in 1..Len(last.trades) :
              last.trades[i].maker_order_id \in IdsBefore

\* C8 witness: one submit filled a maker completely, filled the next one in
\* part and left it resting.
C8_Witness ==
    /\ last.op = "submit" /\ Len(last.trades) = 2
    /\ RestingQuantity(last.trades[1].maker_order_id) = 0
    /\ RestingQuantity(last.trades[2].maker_order_id) > 0

\* C9: cancel_order(id) returns true exactly when id was resting, and the id
\* is not resting afterwards; a cancel that returns false leaves bids, asks
\* and the handle table as they were; and an id enters the handle table only
\* in the submit that assigned it, as the newest id, so an id that has left
\* the table never returns and every later cancel of it returns false.
C9_CancelOnce ==
    /\ last.op = "cancel" =>
          /\ last.cancelled <=> (last.order_id \in IdsBefore)
          /\ last.order_id \notin DOMAIN orders
          /\ ~last.cancelled => (View(Book) = before /\ DOMAIN orders = IdsBefore)
    /\ \A id \in DOMAIN orders :
          id \in IdsBefore \/ (last.op = "submit" /\ id = last.order_id)
    /\ last.op = "submit" =>
          /\ last.order_id = order_id_counter
          /\ \A id \in IdsBefore : id < last.order_id

\* C9 witness: a cancel returned true and took one order out of a book that
\* still holds others.
C9_Witness ==
    /\ last.op = "cancel" /\ last.cancelled
    /\ last.order_id \in IdsBefore
    /\ orders # <<>>

\* C10: when an accepted LIMIT submit that produced no trades is followed at
\* once by the cancel of its id, the book after the cancel is the book the
\* submit found: the same best_bid and best_ask, the same levels on each
\* side, and in each level the same total_volume, order_count and queue.
C10_InsertCancelRestores ==
    [][(/\ last.op = "submit" /\ last.accepted /\ last.order_type = LIMIT
        /\ last.trades = <<>>
        /\ last'.op = "cancel" /\ last'.order_id = last.order_id)
       => View([bids |-> bids', asks |-> asks', orders |-> orders',
                heap |-> heap', raised |-> ""]) = before]_vars

\* C10 witness: the newest order, which had joined a level behind another
\* order, was cancelled, and that level is back to one order.
C10_Witness ==
    /\ last.op = "cancel" /\ last.cancelled
    /\ last.order_id = order_id_counter
    /\ \E ref \in Refs :
          LET side_view == IF ref[1] = "bids" THEN before.bids ELSE before.asks
          IN /\ Level(Book, ref).order_count = 1
             /\ Len(side_view[ref[2]].queue) = 2
             /\ side_view[ref[2]].queue[2].order_id = last.order_id

\* C11 (as claimed): a submit that carries a price outside the band
\* [lower_band, upper_band] is rejected with no trades, whatever the price
\* (0 and negative prices included), and a submit priced exactly at
\* lower_band or upper_band is not rejected for its price.
C11_PriceBand ==
    (last.op = "submit" /\ last.price # None) =>
        /\ ~CheckPriceBand(last.price[1])
              => (~last.accepted /\ last.trades = <<>>)
        /\ (last.price[1] * 100 = ReferencePrice * (100 - BandPercent)
            \/ last.price[1] * 100 = ReferencePrice * (100 + BandPercent))
              => last.reason # "band"

\* C12: a submit that returns accepted = false returns no trades and leaves
\* bids, asks, every level's queue and totals, the handle table and the
\* compliance state (market_halted, halt_end_time; the reference price and
\* the bands are fixed at construction) as the call found them.
C12_RejectLeavesState ==
    [][(last'.op = "submit" /\ ~last'.accepted)
       => /\ last'.trades = <<>>
          /\ bids' = bids /\ asks' = asks /\ orders' = orders
          /\ View([bids |-> bids', asks |-> asks', orders |-> orders',
                   heap |-> heap', raised |-> ""]) = View(Book)
          /\ market_halted' = market_halted
          /\ halt_end_time' = halt_end_time]_vars

\* C12 witness: a submit was rejected for its price while orders rest on
\* both sides of the book.
C12_Witness ==
    /\ last.op = "submit" /\ ~last.accepted /\ last.reason = "band"
    /\ DOMAIN bids # {} /\ DOMAIN asks # {}
    /\ View(Book) = before

\* The taker's own side of the book, as the last call found it and now.
OwnBefore(side) == IF side = BUY THEN before.bids ELSE before.asks
OwnNow(side) == IF side = BUY THEN View(Book).bids ELSE View(Book).asks
OwnKey(side, price) == IF side = BUY THEN -(price[1]) ELSE price[1]

\* C13: for an accepted LIMIT submit let residual be the submitted quantity
\* minus the sum of its trades.  If residual > 0 the order rests: its id is
\* in the handle table and it is the last entry, with quantity residual, of
\* the queue of the level priced order.price on its own side, behind the
\* orders that level held before.  Otherwise nothing of it rests: its id is
\* not in the table and its own side is as the call found it.
C13_LimitResidualRests ==
    (last.op = "submit" /\ last.accepted /\ last.order_type = LIMIT) =>
        LET residual == last.quantity - SumTrades(last.trades)
            key      == OwnKey(last.side, last.price)
            was      == OwnBefore(last.side)
            now      == OwnNow(last.side)
        IN IF residual > 0
           THEN /\ last.order_id \in DOMAIN orders
                /\ key \in DOMAIN now
                /\ now[key].price = last.price[1]
                /\ now[key].queue
                     = (IF key \in DOMAIN was THEN was[key].queue ELSE <<>>)
                       \o <<[order_id |-> last.order_id, quantity |-> residual]>>
                /\ \A k \in DOMAIN now : k # key =>
                      (k \in DOMAIN was /\ now[k] = was[k])
           ELSE /\ last.order_id \notin DOMAIN orders
                /\ now = was

\* C13 witness: the example scaled down.  With only ask 1@101 (id 1), LIMIT
\* BUY 2@101 (id 2) trades 1 at 101 and leaves bid 1@101 and no asks.
C13_Witness ==
    /\ last.op = "submit" /\ last.accepted /\ last.order_type = LIMIT
    /\ last.side = BUY /\ last.quantity = 2 /\ last.price = <<101>>
    /\ last.trades = <<NewTrade(1, 2, 101, 1)>>
    /\ DOMAIN asks = {}
    /\ DOMAIN bids = {-101}
    /\ bids[-101].total_volume = 1 /\ bids[-101].order_count = 1
    /\ 2 \in DOMAIN orders /\ bids[-101].tail_order = orders[2]

\* C14: after the submit of a MARKET order the order is accepted, its id is
\* not in the handle table and its own side is as the call found it; if any
\* of its quantity is left, the opposite side is empty (the sweep went on
\* until the order was filled or nothing was left to take); and with an
\* empty opposite side there are no trades and the book is unchanged.
C14_MarketNeverRests ==
    (last.op = "submit" /\ last.order_type = MARKET) =>
        /\ last.accepted
        /\ last.order_id \notin DOMAIN orders
        /\ OwnNow(last.side) = OwnBefore(last.side)
        /\ last.remaining > 0 => DOMAIN OppositeNow(last.side) = {}
        /\ DOMAIN OppositeBefore(last.side) = {}
              => (last.trades = <<>> /\ View(Book) = before)

\* C14 witness: a MARKET order took all there was on the opposite side and
\* still had quantity left, which was dropped.
C14_Witness ==
    /\ last.op = "submit" /\ last.order_type = MARKET
    /\ last.trades # <<>>
    /\ DOMAIN OppositeBefore(last.side) # {}
    /\ last.remaining > 0
    /\ DOMAIN OppositeNow(last.side) = {}
    /\ last.order_id \notin DOMAIN orders

\* C15: after the submit of an IOC order its id is not in the handle table
\* and its own side of the book is as the call found it (no level gained
\* volume): what was not filled is dropped.
C15_IOCNeverRests ==
    (last.op = "submit" /\ last.order_type = IOC) =>
        /\ last.order_id \notin DOMAIN orders
        /\ OwnNow(last.side) = OwnBefore(last.side)

\* C15 witness: an accepted IOC order was filled in part and the rest of its
\* quantity was dropped.
C15_Witness ==
    /\ last.op = "submit" /\ last.order_type = IOC /\ last.accepted
    /\ last.trades # <<>>
    /\ last.remaining > 0
    /\ last.order_id \notin DOMAIN orders

\* C16 (as claimed): no trade of an IOC taker is at a price worse than its
\* limit price: an IOC BUY priced p trades only at prices <= p, an IOC SELL
\* priced p only at prices >= p.
C16_IOCPrice ==
    (last.op = "submit" /\ last.order_type = IOC) =>
        \A i \in 1..Len(last.trades) :
            /\ last.side = BUY => last.trades[i].price <= last.price[1]
            /\ last.side = SELL => last.trades[i].price >= last.price[1]

\* The volume of the resting orders in priority sequence pl whose price is
\* acceptable to a taker of the given side and price.
RECURSIVE AcceptableVolume(_, _, _)
AcceptableVolume(pl, side, price) ==
    IF pl = <<>> THEN 0
    ELSE (IF (side = BUY /\ Head(pl).price <= price[1])
             \/ (side = SELL /\ Head(pl).price >= price[1])
          THEN Head(pl).quantity ELSE 0)
         + AcceptableVolume(Tail(pl), side, price)

\* C17 (as claimed): a FOK submit of a positive quantity is accepted and
\* filled completely when the opposite side held at least that quantity at
\* acceptable prices; otherwise it is rejected with no trades and the book
\* unchanged.
C17_FOKAllOrNothing ==
    (last.op = "submit" /\ last.order_type = FOK) =>
        IF last.quantity > 0
           /\ AcceptableVolume(InPriority(RestingIn(OppositeBefore(last.side)),
                                          last.side),
                               last.side, last.price) >= last.quantity
        THEN /\ last.accepted
             /\ SumTrades(last.trades) = last.quantity
             /\ last.remaining = 0
        ELSE /\ ~last.accepted
             /\ last.trades = <<>>
             /\ View(Book) = before

\* C18 (as claimed): the submit of a STOP_LOSS order executes nothing at
\* once: it returns no trades and the order is not in the book.
C18_StopLossHeld ==
    (last.op = "submit" /\ last.order_type = STOP_LOSS) =>
        /\ last.trades = <<>>
        /\ last.order_id \notin DOMAIN orders

\* C19 (as claimed): after an accepted submit whose last trade price is at
\* least 10% away from the reference price, at a time of day whose tabulated
\* action is not 0, the market is halted and halt_end_time is set (and with
\* that, later submits before halt_end_time are rejected as halted).
C19_BreakerHalts ==
    (/\ last.op = "submit" /\ last.accepted /\ last.trades # <<>>
     /\ CheckIndexCircuitBreaker(last.trades[Len(last.trades)].price,
                                 last.current_time).triggered
     /\ CheckIndexCircuitBreaker(last.trades[Len(last.trades)].price,
                                 last.current_time).action # "0")
        => (market_halted /\ halt_end_time # None)

\* The session of a time of day (minutes since midnight) by the windows
\* [09:00,09:15), [09:15,15:30), [15:40,16:00).
SessionOf(t) ==
    IF 9 * 60 <= t /\ t < 9 * 60 + 15 THEN "pre_market"
    ELSE IF 9 * 60 + 15 <= t /\ t < 15 * 60 + 30 THEN "regular"
    ELSE IF 15 * 60 + 40 <= t /\ t < 16 * 60 THEN "post_market"
    ELSE "closed"

\* C20 (as claimed): a submit whose order type is not allowed in the session
\* of its time of day is rejected: pre-market allows LIMIT and MARKET,
\* regular allows LIMIT, MARKET, STOP_LOSS and IOC, post-market allows
\* LIMIT, and outside the windows nothing is allowed.
C20_SessionRules ==
    (last.op = "submit"
     /\ last.order_type \notin SessionRules(SessionOf(last.current_time)))
        => (~last.accepted /\ last.trades = <<>>)

\* C21 (as claimed): a submit with quantity <= 0 is rejected: it returns
\* accepted = false and no trades and leaves the book as it found it.
C21_QuantityGate ==
    (last.op = "submit" /\ last.quantity <= 0) =>
        /\ ~last.accepted
        /\ last.trades = <<>>
        /\ View(Book) = before

\* The records linked into the queue of some level.
QueuedRecords ==
    UNION {{QueueOf(Book, Level(Book, ref))[i] :
              i \in 1..Len(QueueOf(Book, Level(Book, ref)))} : ref \in Refs}

\* C22: after every call every order resting in the book has quantity > 0:
\* every record in a level's queue and every record of the handle table; a
\* maker that a submit filled completely is in neither, and a taker whose
\* remaining quantity is 0 was not inserted.
C22_RestingPositive ==
    /\ \A r \in QueuedRecords : heap[r].quantity > 0
    /\ \A id \in DOMAIN orders : heap[orders[id]].quantity > 0
    /\ last.op = "submit" =>
          /\ \A x \in RestingIn(OppositeBefore(last.side)) :
                FillsOf(x.order_id, last.trades) = x.quantity
                   => (/\ x.order_id \notin DOMAIN orders
                       /\ \A r \in QueuedRecords : heap[r].order_id # x.order_id)
          /\ last.remaining = 0 => last.order_id \notin DOMAIN orders

\* C22 witness: a LIMIT submit filled the first maker of a level completely
\* and was itself filled; the maker is gone, the next maker of the level
\* still rests, and the taker was not inserted.
C22_Witness ==
    /\ last.op = "submit" /\ last.order_type = LIMIT
    /\ Len(last.trades) = 1
    /\ last.remaining = 0
    /\ last.trades[1].maker_order_id \notin DOMAIN orders
    /\ last.order_id \notin DOMAIN orders
    /\ \E x \in RestingIn(OppositeNow(last.side)) :
          x.price = last.trades[1].price /\ x.quantity > 0

\* C23: check_index_circuit_breaker(current_price, time) reports triggered =
\* false iff the move |current_price - reference_price| / reference_price is
\* below 10%; otherwise it returns the action of the highest tier the move
\* reaches (a move of exactly 10%, 15% or 20% reaches that tier): 20% gives
\* halt_for_day; 15% gives 105 before 13:00, 45 in [13:00,14:30) and
\* close_market from 14:30; 10% gives 45, 15 and 0.
C23_BreakerTable ==
    last.op = "check_index_circuit_breaker" =>
        LET move == IF last.price[1] >= ReferencePrice
                    THEN (last.price[1] - ReferencePrice) * 100
                    ELSE (ReferencePrice - last.price[1]) * 100
            t    == last.current_time
        IN /\ last.halt_info.triggered <=> ~(move < 10 * ReferencePrice)
           /\ move >= 20 * ReferencePrice
                 => last.halt_info.action = "halt_for_day"
           /\ (15 * ReferencePrice <= move /\ move < 20 * ReferencePrice)
                 => last.halt_info.action
                      = (IF t < 13 * 60 THEN "105"
                         ELSE IF t < 14 * 60 + 30 THEN "45" ELSE "close_market")
           /\ (10 * ReferencePrice <= move /\ move < 15 * ReferencePrice)
                 => last.halt_info.action
                      = (IF t < 13 * 60 THEN "45"
                         ELSE IF t < 14 * 60 + 30 THEN "15" ELSE "0")

\* C23 witness: a fall of exactly 15% checked at 14:30 gives close_market.
C23_Witness ==
    /\ last.op = "check_index_circuit_breaker"
    /\ last.price = <<85>> /\ last.current_time = 870
    /\ last.halt_info.triggered
    /\ last.halt_info.action = "close_market"

\* C24: every submit, accepted or rejected, takes the next id: the counter
\* goes up by exactly 1 and the order gets the new counter value, which is
\* above every id given out before; a cancel leaves the counter alone.  So
\* after every call the ids of the handle table lie in 1..counter and name
\* distinct orders, each carrying its own id, and no call ends in the
\* duplicate-id ValueError of OrderBook.add_order.
C24_IdsIncrease ==
    [][/\ last'.op = "submit" =>
             /\ order_id_counter' = order_id_counter + 1
             /\ last'.order_id = order_id_counter'
             /\ \A id \in DOMAIN orders : id < last'.order_id
             /\ last.op = "submit" => last.order_id < last'.order_id
       /\ last'.op = "cancel" => order_id_counter' = order_id_counter
       /\ \A id \in DOMAIN orders' :
             /\ 1 <= id /\ id <= order_id_counter'
             /\ heap'[orders'[id]].order_id = id
       /\ \A id1, id2 \in DOMAIN orders' :
             id1 # id2 => orders'[id1] # orders'[id2]
       /\ last'.raised # "ValueError"]_vars

\* C24 witness: a rejected submit consumed id 2 while order 1 rests.
C24_Witness ==
    /\ last.op = "submit" /\ ~last.accepted
    /\ last.order_id = 2 /\ order_id_counter = 2
    /\ DOMAIN orders = {1}

\* The records the book b refers to: those of the handle table, the head and
\* tail of every level, every record of a level's queue, and whatever these
\* link to.
ReferencedRecords(b) ==
    Closure(b.heap, Roots(b, [released |-> <<>>]))
    \cup UNION {{QueueOf(b, b.bids[k])[i] : i \in 1..Len(QueueOf(b, b.bids[k]))} :
                  k \in DOMAIN b.bids}
    \cup UNION {{QueueOf(b, b.asks[k])[i] : i \in 1..Len(QueueOf(b, b.asks[k]))} :
                  k \in DOMAIN b.asks}

\* The free list p is sound for the book b: no record of it is referred to
\* by the book, no record is in it twice, and the released records have
\* null links.
PoolSound(b, p) ==
    /\ \A r \in ReferencedRecords(b) :
          /\ ~(p.lo <= r /\ r <= p.hi)
          /\ \A i \in 1..Len(p.released) : p.released[i] # r
    /\ \A i \in 1..Len(p.released) :
          /\ ~(p.lo <= p.released[i] /\ p.released[i] <= p.hi)
          /\ \A j \in 1..Len(p.released) : i # j => p.released[i] # p.released[j]
          /\ b.heap[p.released[i]].next_order = Null
          /\ b.heap[p.released[i]].prev_order = Null
          /\ b.heap[p.released[i]].parent_limit = None

\* The released part of the free list once a call of the given kind has
\* taken its record: a submit takes the leftmost record, which is a released
\* one only when no never-used record is left.
ReleasedAfterTake(p, op) ==
    IF op = "submit" /\ p.lo > p.hi /\ p.released # <<>>
    THEN Tail(p.released) ELSE p.released

\* C25: after every call the free list is sound for the book (no record of
\* it rests or is referred to by a level or the handle table, none is in it
\* twice, released records have null links); a call appends a record to the
\* free list exactly when it is a rejected submit or a cancel that returned
\* true, and then it appends the record of that call; and the record a
\* submit is handed was not referred to by the book.
C25_PoolSafety ==
    [][/\ PoolSound([bids |-> bids', asks |-> asks', orders |-> orders',
                     heap |-> heap', raised |-> ""], pool')
       /\ pool'.released
            = IF (last'.op = "submit" /\ ~last'.accepted)
                 \/ (last'.op = "cancel" /\ last'.cancelled)
              THEN Append(ReleasedAfterTake(pool, last'.op), last'.rec)
              ELSE ReleasedAfterTake(pool, last'.op)
       /\ last'.op = "submit" => last'.rec \notin ReferencedRecords(Book)]_vars

\* C25 witness: record 1, released by a cancel or a rejection, was handed
\* out again for order 3, which now rests next to order 2.
C25_Witness ==
    /\ last.op = "submit" /\ last.accepted
    /\ last.order_id = 3 /\ last.rec = 1
    /\ DOMAIN orders = {2, 3}
    /\ orders[3] = 1

\* C26: match_order terminates, and for every submit: each trade but the
\* last consumed its maker completely (the maker no longer rests), and the
\* last one did so or left the taker with nothing; every level the taker
\* traded at is gone from the opposite side, unless it is the level of the
\* last trade and the taker was filled; no maker trades twice; so there are
\* at most as many trades as orders rested on the opposite side.
C26_MatchTerminates ==
    last.op = "submit" =>
        LET n == Len(last.trades)
        IN /\ n <= Cardinality(RestingIn(OppositeBefore(last.side)))
           /\ \A i \in 1..n :
                 \/ RestingQuantity(last.trades[i].maker_order_id) = 0
                 \/ (i = n /\ last.remaining = 0)
           /\ \A i \in 1..n :
                 \/ \A k \in DOMAIN OppositeNow(last.side) :
                       OppositeNow(last.side)[k].price # last.trades[i].price
                 \/ (last.trades[i].price = last.trades[n].price
                     /\ last.remaining = 0)
           /\ \A i, j \in 1..n :
                 i # j => last.trades[i].maker_order_id
                            # last.trades[j].maker_order_id

\* C26 witness: a submit traded once with each of the two orders resting on
\* the opposite side, at two prices, and both levels are gone.
C26_Witness ==
    /\ last.op = "submit"
    /\ Len(last.trades) = 2
    /\ Cardinality(RestingIn(OppositeBefore(last.side))) = 2
    /\ last.trades[1].price # last.trades[2].price
    /\ DOMAIN OppositeNow(last.side) = {}

====
